---- MODULE Spec2Model ----
(***************************************************************************)
(* A model of firewall/firewall.go of adrianosela/GoFirewall: the rule     *)
(* table (path -> trusted netblocks), AddPathRule, the handler produced by *)
(* Wrap, and IPIsTrusted.  Text (CIDR strings, peer addresses) is a        *)
(* sequence of one-character strings, and the standard-library parsers the *)
(* code calls (net.ParseCIDR, net.ParseIP, strings.Split, IPNet.Contains)  *)
(* are computed on it for IPv4 dotted-decimal text.  No modelled input     *)
(* lets a ':' reach the address parser (the handler splits the peer        *)
(* address on ':' first; the CIDR strings used contain none), so the IPv6  *)
(* branch of the parser is never entered and is not modelled.              *)
(***************************************************************************)
EXTENDS Integers, Sequences, FiniteSets, Bags, TLC

(* ------------------------------ bounds --------------------------------- *)

\* longest list of network strings handed to one AddPathRule call
MaxNetworks == 3
\* number of AddPathRule calls made while configuring
MaxCalls == 2
\* number of requests in flight at once through wrapped handlers
MaxRequests == 2

(* --------------------------- program constants ------------------------- *)

\* http.StatusForbidden
StatusForbidden == 403
\* the largest IPv4 octet, the width of an octet and of an IPv4 address
MaxOctet == 255
OctetBits == 8
IPv4Bits == 32
IPv4Len == 4
\* dtoi's overflow guard (0xFFFFFF)
Big == 16777215

(* ------------------------------- text ---------------------------------- *)

\* the decimal digits and their values
DigitChars ==
    "0" :> 0 @@ "1" :> 1 @@ "2" :> 2 @@ "3" :> 3 @@ "4" :> 4 @@
    "5" :> 5 @@ "6" :> 6 @@ "7" :> 7 @@ "8" :> 8 @@ "9" :> 9

IsDigit(c) == c \in DOMAIN DigitChars

DigitVal(c) == DigitChars[c]

\* index of the first occurrence of c in s from position i on, 0 when there
\* is none
RECURSIVE IndexFrom(_, _, _)
IndexFrom(s, c, i) ==
    IF i > Len(s) THEN 0
    ELSE IF s[i] = c THEN i
    ELSE IndexFrom(s, c, i + 1)

IndexByte(s, c) == IndexFrom(s, c, 1)

\* strings.Split(s, sep)[0]: the text before the first separator, all of s
\* when it holds none (the result of Split always has a first element)
SplitFirst(s, sep) ==
    LET i == IndexByte(s, sep)
    IN  IF i = 0 THEN s ELSE SubSeq(s, 1, i - 1)

\* the absent address (Go's nil net.IP) and its rendering by IP.String()
NilIP == <<>>

\* dtoi: the decimal number at the start of s, the count of characters read
\* and whether a number was read without overflow
RECURSIVE dtoiFrom(_, _, _)
dtoiFrom(s, i, n) ==
    IF i <= Len(s) /\ IsDigit(s[i])
    THEN LET m == n * 10 + DigitVal(s[i])
         IN  IF m >= Big THEN [n |-> Big, i |-> i - 1, ok |-> FALSE]
             ELSE dtoiFrom(s, i + 1, m)
    ELSE IF i = 1 THEN [n |-> 0, i |-> 0, ok |-> FALSE]
         ELSE [n |-> n, i |-> i - 1, ok |-> TRUE]

dtoi(s) == dtoiFrom(s, 1, 0)

\* parseIPv4Fields: four decimal octets separated by dots
RECURSIVE parseIPv4Fields(_, _, _)
parseIPv4Fields(s, i, st) ==
    LET bad == [st EXCEPT !.ok = FALSE]
    IN  IF i > Len(s)
        THEN IF st.pos < IPv4Len - 1 THEN bad
             ELSE [st EXCEPT !.fields[IPv4Len] = st.val]
        ELSE IF IsDigit(s[i])
        THEN IF st.digLen = 1 /\ st.val = 0 THEN bad
             ELSE LET v == st.val * 10 + DigitVal(s[i])
                  IN  IF v > MaxOctet THEN bad
                      ELSE parseIPv4Fields(s, i + 1,
                               [st EXCEPT !.val = v, !.digLen = st.digLen + 1])
        ELSE IF s[i] = "."
        THEN IF i = 1 \/ i = Len(s) \/ s[i - 1] = "." THEN bad
             ELSE IF st.pos = IPv4Len - 1 THEN bad
             ELSE parseIPv4Fields(s, i + 1,
                      [st EXCEPT !.fields[st.pos + 1] = st.val,
                                 !.pos = st.pos + 1, !.val = 0, !.digLen = 0])
        ELSE bad

\* netip.ParseAddr on IPv4 text: the four octets, or NilIP on a parse error
ParseAddr(s) ==
    IF IndexByte(s, ".") = 0 THEN NilIP
    ELSE LET r == parseIPv4Fields(s, 1,
                      [val |-> 0, pos |-> 0, digLen |-> 0,
                       fields |-> <<0, 0, 0, 0>>, ok |-> TRUE])
         IN  IF r.ok THEN r.fields ELSE NilIP

\* net.ParseIP
ParseIP(s) == ParseAddr(s)

RECURSIVE Pow2(_)
Pow2(k) == IF k = 0 THEN 1 ELSE 2 * Pow2(k - 1)

\* byte b ANDed with byte i (from 0) of the mask net.CIDRMask(ones, 32)
MaskedOctet(b, ones, i) ==
    LET k == IF ones - OctetBits * i < 0 THEN 0
             ELSE IF ones - OctetBits * i > OctetBits THEN OctetBits
             ELSE ones - OctetBits * i
        low == Pow2(OctetBits - k)
    IN  (b \div low) * low

\* IP.Mask
MaskIP(ip, ones) == [i \in 1..IPv4Len |-> MaskedOctet(ip[i], ones, i - 1)]

\* the error value of a failed parse
NoNet == [IP |-> NilIP, Ones |-> -1]

\* net.ParseCIDR: the network of "a.b.c.d/n" (address masked to n bits), or
\* NoNet where the code gets err # nil
ParseCIDR(s) ==
    LET i == IndexByte(s, "/")
    IN  IF i = 0 THEN NoNet
        ELSE LET addr == SubSeq(s, 1, i - 1)
                 mask == SubSeq(s, i + 1, Len(s))
                 ip   == ParseAddr(addr)
                 d    == dtoi(mask)
             IN  IF ip = NilIP THEN NoNet
                 ELSE IF ~d.ok \/ d.i # Len(mask) \/ d.n < 0 \/ d.n > IPv4Bits
                 THEN NoNet
                 ELSE [IP |-> MaskIP(ip, d.n), Ones |-> d.n]

\* IPNet.Contains
Contains(netblock, ip) ==
    /\ ip # NilIP
    /\ \A i \in 1..IPv4Len :
           MaskedOctet(netblock.IP[i], netblock.Ones, i - 1)
               = MaskedOctet(ip[i], netblock.Ones, i - 1)


(* ------------------------------ inputs --------------------------------- *)

\* request paths and rule paths
Paths == {"/hello", "/other"}

\* "10.0.0.0/8", the string of the README's rule
CIDR10 == <<"1", "0", ".", "0", ".", "0", ".", "0", "/", "8">>
\* "10.0.0.0/33": prefix length out of range
CIDRBadLen == <<"1", "0", ".", "0", ".", "0", ".", "0", "/", "3", "3">>
NetworkStrings == {CIDR10, CIDRBadLen}

\* "10.1.2.3:80": inside Net10, outside Net203
Peer10 == <<"1", "0", ".", "1", ".", "2", ".", "3", ":", "8", "0">>
\* "[::1]:80": the text before the first ':' is "[", no address
PeerV6 == <<"[", ":", ":", "1", "]", ":", "8", "0">>

RemoteAddrs == {Peer10, PeerV6}

RECURSIVE SeqsUpTo(_, _)
SeqsUpTo(S, n) ==
    IF n = 0 THEN {<<>>}
    ELSE LET shorter == SeqsUpTo(S, n - 1)
         IN  shorter \cup {Append(q, x) : q \in shorter, x \in S}

NetworkLists == SeqsUpTo(NetworkStrings, MaxNetworks)

(* ------------------------------- state --------------------------------- *)

VARIABLES
    Rules,      \* Firewall.Rules: PathToNetblocks (nil or a map) and FailOpen
    Log,        \* Firewall.Log
    ctor,       \* which constructor built the firewall
    phase,      \* "config" while rules are registered, then "serve"
    panicked,   \* a run-time panic has ended the process
    calls,      \* AddPathRule calls made so far while configuring
    lastCall,   \* the latest AddPathRule call: arguments, table before, result
    firstAdded, \* per path, the prefixes of its first successful AddPathRule
    atServe,    \* the configuration as it was when serving began
    reqs        \* the bag of requests in flight, one handler invocation each

vars == <<Rules, Log, ctor, phase, panicked, calls, lastCall, firstAdded,
          atServe, reqs>>

\* a Go map: nil (reads find nothing, a write panics) or a set of entries
EmptyEntries == [p \in {} |-> <<>>]
NilMap == [nil |-> TRUE, kv |-> EmptyEntries]
MakeMap(kv) == [nil |-> FALSE, kv |-> kv]

\* New()
New == [Rules |-> [PathToNetblocks |-> NilMap, FailOpen |-> FALSE],
        Log |-> FALSE]

\* NewFirewall(rules, failOpen, log)
NewFirewall(rules, failOpen, log) ==
    [Rules |-> [PathToNetblocks |-> rules, FailOpen |-> failOpen],
     Log |-> log]

\* netblocks a caller of NewFirewall builds: 10.0.0.0/8 and 203.0.113.0/24
Net10 == [IP |-> <<10, 0, 0, 0>>, Ones |-> 8]
Net203 == [IP |-> <<203, 0, 113, 0>>, Ones |-> 24]

\* the rule maps handed to NewFirewall: nil, empty, and two built by the caller
InitialRules ==
    {NilMap, MakeMap(EmptyEntries),
     MakeMap([p \in {"/hello"} |-> <<Net203>>]),
     MakeMap([p \in {"/hello"} |-> <<Net203, Net10>>])}

NoCall == [path |-> "", networks |-> <<>>, before |-> NilMap, err |-> "none"]

\* a handler invocation about to run line 84, its source address read
NewReq(remoteAddr, path, srcIP) ==
    [pc |-> "L84", RemoteAddr |-> remoteAddr, Path |-> path, srcIP |-> srcIP,
     rule |-> <<>>, hasRule |-> FALSE, authorized |-> FALSE, events |-> <<>>]

Init ==
    /\ \E fw \in {New} \cup {NewFirewall(m, fo, lg) :
                               m \in InitialRules, fo \in BOOLEAN, lg \in BOOLEAN} :
           /\ Rules = fw.Rules
           /\ Log = fw.Log
    /\ ctor \in {"New", "NewFirewall"}
    /\ ctor = "New" => (Rules = New.Rules /\ Log = New.Log)
    /\ phase = "config"
    /\ panicked = FALSE
    /\ calls = 0
    /\ lastCall = NoCall
    /\ firstAdded = EmptyEntries
    /\ atServe = New
    /\ reqs = EmptyBag

(* ---------------------------- AddPathRule ------------------------------ *)

\* lines 65-72: parse the strings in order, stop at the first that fails
RECURSIVE ParseNetworks(_, _, _)
ParseNetworks(networks, i, trusted) ==
    IF i > Len(networks) THEN [ok |-> TRUE, trusted |-> trusted]
    ELSE LET trustedNetblock == ParseCIDR(networks[i])
         IN  IF trustedNetblock = NoNet
             THEN [ok |-> FALSE, trusted |-> trusted]
             ELSE ParseNetworks(networks, i + 1, Append(trusted, trustedNetblock))

\* AddPathRule assigning inside the loop's error exit: the prefixes parsed
\* before the failing string are stored
AddPathRuleStoresPartial(m, path, networks) ==
    IF path \in DOMAIN m.kv
    THEN [map |-> m, err |-> "ErrPathHasRule", panic |-> FALSE]
    ELSE LET parsed == ParseNetworks(networks, 1, <<>>)
             stored == MakeMap([p \in DOMAIN m.kv \cup {path} |->
                                   IF p = path THEN parsed.trusted ELSE m.kv[p]])
         IN  IF m.nil /\ parsed.ok
             THEN [map |-> m, err |-> "panic: assignment to entry in nil map",
                   panic |-> TRUE]
             ELSE IF m.nil
             THEN [map |-> m, err |-> "could not parse CIDR", panic |-> FALSE]
             ELSE [map |-> stored,
                   err |-> IF parsed.ok THEN "nil" ELSE "could not parse CIDR",
                   panic |-> FALSE]

\* AddPathRule without the check of lines 61-63: a configured path is
\* assigned again
AddPathRuleOverwrites(m, path, networks) ==
    LET parsed == ParseNetworks(networks, 1, <<>>)
    IN  IF ~parsed.ok
        THEN [map |-> m, err |-> "could not parse CIDR", panic |-> FALSE]
        ELSE IF m.nil
        THEN [map |-> m, err |-> "panic: assignment to entry in nil map",
              panic |-> TRUE]
        ELSE [map |-> MakeMap([p \in DOMAIN m.kv \cup {path} |->
                                  IF p = path THEN parsed.trusted ELSE m.kv[p]]),
              err |-> "nil", panic |-> FALSE]

\* AddPathRule(path, networks) on the map m: the map afterwards, the error
\* returned ("nil" for none) and whether the call panicked
AddPathRuleResult(m, path, networks) ==
    IF path \in DOMAIN m.kv
    THEN [map |-> m, err |-> "ErrPathHasRule", panic |-> FALSE]
    ELSE LET parsed == ParseNetworks(networks, 1, <<>>)
         IN  IF ~parsed.ok
             THEN [map |-> m, err |-> "could not parse CIDR", panic |-> FALSE]
             ELSE IF m.nil
             THEN [map |-> m, err |-> "panic: assignment to entry in nil map",
                   panic |-> TRUE]
             ELSE [map |-> MakeMap([p \in DOMAIN m.kv \cup {path} |->
                                       IF p = path THEN parsed.trusted ELSE m.kv[p]]),
                   err |-> "nil", panic |-> FALSE]

AddPathRule(path, networks) ==
    /\ phase = "config"
    /\ ~panicked
    /\ calls < MaxCalls
    /\ LET res == AddPathRuleResult(Rules.PathToNetblocks, path, networks)
       IN  /\ Rules' = [Rules EXCEPT !.PathToNetblocks = res.map]
           /\ panicked' = res.panic
           /\ lastCall' = [path |-> path, networks |-> networks,
                           before |-> Rules.PathToNetblocks, err |-> res.err]
           /\ firstAdded' =
                  IF res.err = "nil" /\ path \notin DOMAIN firstAdded
                  THEN [p \in DOMAIN firstAdded \cup {path} |->
                           IF p = path
                           THEN [i \in 1..Len(networks) |-> ParseCIDR(networks[i])]
                           ELSE firstAdded[p]]
                  ELSE firstAdded
    /\ calls' = calls + 1
    /\ UNCHANGED <<Log, ctor, phase, atServe, reqs>>

\* registration is over and the wrapped handlers start to receive traffic
\* (the README's main: AddPathRule, then router and http.ListenAndServe); the
\* record of the configuration calls goes out of scope
ListenAndServe ==
    /\ phase = "config"
    /\ ~panicked
    /\ phase' = "serve"
    /\ lastCall' = NoCall
    /\ calls' = 0
    /\ atServe' = [Rules |-> Rules, Log |-> Log]
    /\ UNCHANGED <<Rules, Log, ctor, panicked, firstAdded, reqs>>

(* ------------------------------- Wrap ---------------------------------- *)

\* IPIsTrusted: a nil source is never trusted; otherwise scan the netblocks in
\* order and stop at the first that contains the source
RECURSIVE IPIsTrustedFrom(_, _, _)
IPIsTrustedFrom(trusted, src, i) ==
    IF i > Len(trusted) THEN FALSE
    ELSE IF Contains(trusted[i], src) THEN TRUE
    ELSE IPIsTrustedFrom(trusted, src, i + 1)

\* IPIsTrusted with the nil test inverted
IPIsTrustedNilTrusted(trusted, src) ==
    IF src = NilIP THEN TRUE
    ELSE IPIsTrustedFrom(trusted, src, 1)

\* IPIsTrusted returning from inside the loop after the first netblock
IPIsTrustedFirstOnly(trusted, src) ==
    IF src = NilIP THEN FALSE
    ELSE Len(trusted) > 0 /\ Contains(trusted[1], src)

IPIsTrusted(trusted, src) ==
    IF src = NilIP THEN FALSE
    ELSE IPIsTrustedFrom(trusted, src, 1)

\* line 82: net.ParseIP(strings.Split(r.RemoteAddr, ":")[0])
SrcIP(remoteAddr) == ParseIP(SplitFirst(remoteAddr, ":"))

\* line 84: rule, hasRule := fw.Rules.PathToNetblocks[r.URL.Path]
Lookup(m, path) ==
    IF path \in DOMAIN m.kv
    THEN [rule |-> m.kv[path], hasRule |-> TRUE]
    ELSE [rule |-> <<>>, hasRule |-> FALSE]

\* line 85 without its second operand
AuthorizedIgnoresFailOpen(hasRule, rule, srcIP, failOpen) ==
    hasRule /\ IPIsTrusted(rule, srcIP)

\* line 85
Authorized(hasRule, rule, srcIP, failOpen) ==
    (hasRule /\ IPIsTrusted(rule, srcIP)) \/ failOpen

\* http.StatusText
StatusText(code) == IF code = StatusForbidden THEN "Forbidden" ELSE ""

\* what the handler does to the outside: a log record, a response written by
\* the wrapper, a call of the wrapped handler h with the request
LogEvent(srcIP, path) ==
    [kind |-> "log", status |-> 0, body |-> "", src |-> srcIP, path |-> path,
     remote |-> <<>>]
ResponseEvent(status, body) ==
    [kind |-> "response", status |-> status, body |-> body, src |-> NilIP,
     path |-> "", remote |-> <<>>]
InnerEvent(remoteAddr, path) ==
    [kind |-> "inner", status |-> 0, body |-> "", src |-> NilIP, path |-> path,
     remote |-> remoteAddr]

\* lines 86-91 without the return of line 89: a blocked request falls through
\* to the wrapped handler
HandlerEventsNoReturn(authorized, log, srcIP, remoteAddr, path) ==
    IF ~authorized
    THEN <<LogEvent(srcIP, path),
           ResponseEvent(StatusForbidden, StatusText(StatusForbidden)),
           InnerEvent(remoteAddr, path)>>
    ELSE <<InnerEvent(remoteAddr, path)>>

\* lines 86-91, in order: when not authorized log.Println, http.Error and
\* return; otherwise h(w, r).  The log flag is passed in as the code has it
\* at hand; line 87 does not consult it.
HandlerEvents(authorized, log, srcIP, remoteAddr, path) ==
    IF ~authorized
    THEN <<LogEvent(srcIP, path),
           ResponseEvent(StatusForbidden, StatusText(StatusForbidden))>>
    ELSE <<InnerEvent(remoteAddr, path)>>

\* the bag of requests with q replaced by its next state
Step(q, next) == (reqs (-) SetToBag({q})) (+) SetToBag({next})

\* a request reaches the wrapped handler on its own goroutine, and line 82
\* (which reads the request alone) runs
ParseSrc(remoteAddr, path) ==
    /\ phase = "serve"
    /\ ~panicked
    /\ BagCardinality(reqs) < MaxRequests
    /\ reqs' = reqs (+) SetToBag({NewReq(remoteAddr, path, SrcIP(remoteAddr))})
    /\ UNCHANGED <<Rules, Log, ctor, phase, panicked, calls, lastCall, firstAdded,
                   atServe>>

\* line 84
GetRule(q) ==
    /\ q.pc = "L84"
    /\ LET l == Lookup(Rules.PathToNetblocks, q.Path)
       IN  reqs' = Step(q, [q EXCEPT !.rule = l.rule, !.hasRule = l.hasRule,
                                     !.pc = "L85"])
    /\ UNCHANGED <<Rules, Log, ctor, phase, panicked, calls, lastCall, firstAdded,
                   atServe>>

\* line 85
Decide(q) ==
    /\ q.pc = "L85"
    /\ reqs' = Step(q, [q EXCEPT
                          !.authorized = Authorized(q.hasRule, q.rule, q.srcIP,
                                                    Rules.FailOpen),
                          !.pc = "L86"])
    /\ UNCHANGED <<Rules, Log, ctor, phase, panicked, calls, lastCall, firstAdded,
                   atServe>>

\* lines 86-90: the request is blocked
Reject(q) ==
    /\ q.pc = "L86"
    /\ ~q.authorized
    /\ reqs' = Step(q, [q EXCEPT
                          !.events = HandlerEvents(q.authorized, Log, q.srcIP,
                                                   q.RemoteAddr, q.Path),
                          !.pc = "done"])
    /\ UNCHANGED <<Rules, Log, ctor, phase, panicked, calls, lastCall, firstAdded,
                   atServe>>

\* line 91: the request goes on to the wrapped handler
Forward(q) ==
    /\ q.pc = "L86"
    /\ q.authorized
    /\ reqs' = Step(q, [q EXCEPT
                          !.events = HandlerEvents(q.authorized, Log, q.srcIP,
                                                   q.RemoteAddr, q.Path),
                          !.pc = "done"])
    /\ UNCHANGED <<Rules, Log, ctor, phase, panicked, calls, lastCall, firstAdded,
                   atServe>>

\* the handler has returned
Return(q) ==
    /\ q.pc = "done"
    /\ reqs' = reqs (-) SetToBag({q})
    /\ UNCHANGED <<Rules, Log, ctor, phase, panicked, calls, lastCall, firstAdded,
                   atServe>>

Next ==
    \/ \E path \in Paths, networks \in NetworkLists : AddPathRule(path, networks)
    \/ ListenAndServe
    \/ \E remoteAddr \in RemoteAddrs, path \in Paths : ParseSrc(remoteAddr, path)
    \/ \E q \in BagToSet(reqs) : GetRule(q)
    \/ \E q \in BagToSet(reqs) : Decide(q)
    \/ \E q \in BagToSet(reqs) : Reject(q)
    \/ \E q \in BagToSet(reqs) : Forward(q)
    \/ \E q \in BagToSet(reqs) : Return(q)

Spec == Init /\ [][Next]_vars

(* ------------------------------ properties ----------------------------- *)

\* the entries of the rule table
Table == Rules.PathToNetblocks.kv

\* the requests in flight
Requests == BagToSet(reqs)

Done(r) == r.pc = "done"

Decided(r) == r.pc \in {"L86", "done"}

\* how many events of a kind the handler has produced for request r
Count(r, kind) ==
    Cardinality({i \in DOMAIN r.events : r.events[i].kind = kind})

\* the address lies in some prefix of the list
InSome(T, a) == \E i \in 1..Len(T) : Contains(T[i], a)

AllParse(networks) == \A i \in 1..Len(networks) : ParseCIDR(networks[i]) # NoNet

\* C1: a finished request to a path configured with a non-empty trusted list
\* was authorized, and forwarded to the inner handler, if and only if its
\* source address lies in some prefix of that list, whatever failOpen is.
C1_ConfiguredIffTrusted ==
    \A r \in Requests :
        (Done(r) /\ r.Path \in DOMAIN Table /\ Table[r.Path] # <<>>)
        => /\ r.authorized <=> InSome(Table[r.Path], r.srcIP)
           /\ Count(r, "inner") = 1 <=> InSome(Table[r.Path], r.srcIP)

\* C2: a finished request to a path with no entry in the rule table was decided
\* by failOpen alone: forwarded when it is true, rejected when it is false,
\* whatever the source address and the rules of other paths.
C2_UnconfiguredFollowsFailOpen ==
    \A r \in Requests :
        (Done(r) /\ r.Path \notin DOMAIN Table)
        => /\ r.authorized = Rules.FailOpen
           /\ Count(r, "inner") = (IF Rules.FailOpen THEN 1 ELSE 0)
           /\ Count(r, "response") = (IF Rules.FailOpen THEN 0 ELSE 1)

\* a request from an unresolvable address to an unconfigured path was forwarded
\* under failOpen while the other path has a rule that does not contain it
C2_Witness ==
    \E r \in Requests :
        /\ Done(r) /\ r.Path \notin DOMAIN Table
        /\ r.srcIP = NilIP /\ Rules.FailOpen
        /\ Count(r, "inner") = 1
        /\ \E p \in DOMAIN Table : Table[p] # <<>>

\* C3: a finished request to a path registered through AddPathRule with an
\* empty list of networks was denied, for every source and both failOpen values.
C3_EmptyRuleDeniesAll ==
    \A r \in Requests :
        (Done(r) /\ r.Path \in DOMAIN firstAdded
                 /\ firstAdded[r.Path] = <<>>)
        => /\ ~r.authorized
           /\ Count(r, "inner") = 0

\* C4: a finished denied request never reached the inner handler and got exactly
\* one response, 403 with the body "Forbidden"; a finished authorized request
\* reached the inner handler exactly once, with the request as received, and
\* the wrapper wrote no response.
C4_RejectOrForward ==
    \A r \in Requests :
        Done(r) =>
            IF ~r.authorized
            THEN /\ Count(r, "inner") = 0
                 /\ Count(r, "response") = 1
                 /\ \A i \in DOMAIN r.events :
                        r.events[i].kind = "response"
                        => /\ r.events[i].status = 403
                           /\ r.events[i].body = "Forbidden"
            ELSE /\ Count(r, "inner") = 1
                 /\ Count(r, "response") = 0
                 /\ \A i \in DOMAIN r.events :
                        r.events[i].kind = "inner"
                        => /\ r.events[i].remote = r.RemoteAddr
                           /\ r.events[i].path = r.Path

\* one request was denied and another forwarded, both finished
C4_Witness ==
    \E r1, r2 \in Requests :
        /\ Done(r1) /\ ~r1.authorized /\ Count(r1, "response") = 1
        /\ Done(r2) /\ r2.authorized /\ Count(r2, "inner") = 1

\* C5: on a firewall built by New(), a first AddPathRule call whose strings are
\* all well-formed returns no error, does not fault, and leaves the path mapped
\* to the parsed prefixes in input order.
C5_NewThenAddPathRule ==
    (ctor = "New" /\ phase = "config" /\ calls = 1 /\ AllParse(lastCall.networks))
    => /\ ~panicked
       /\ lastCall.err = "nil"
       /\ lastCall.path \in DOMAIN Table
       /\ Table[lastCall.path] =
              [i \in 1..Len(lastCall.networks) |-> ParseCIDR(lastCall.networks[i])]

\* C6: every path registered by AddPathRule maps to the prefixes of its first
\* successful call; a call for a configured path returns ErrPathHasRule and
\* leaves the table as it was; no call removes a path, replaces the list of a
\* path or adds a path other than its own.
C6_FirstRuleStays ==
    /\ \A p \in DOMAIN firstAdded : p \in DOMAIN Table /\ Table[p] = firstAdded[p]
    /\ lastCall # NoCall =>
        /\ lastCall.path \in DOMAIN lastCall.before.kv
           => /\ lastCall.err = "ErrPathHasRule"
              /\ Rules.PathToNetblocks = lastCall.before
        /\ \A p \in DOMAIN lastCall.before.kv :
               p \in DOMAIN Table /\ Table[p] = lastCall.before.kv[p]
        /\ \A p \in DOMAIN Table \ DOMAIN lastCall.before.kv : p = lastCall.path

\* a second call for a path, with networks that parse to another list than the
\* first call's, was turned down
C6_Witness ==
    /\ lastCall # NoCall
    /\ lastCall.err = "ErrPathHasRule"
    /\ lastCall.path \in DOMAIN firstAdded
    /\ AllParse(lastCall.networks)
    /\ firstAdded[lastCall.path] # <<>>
    /\ [i \in 1..Len(lastCall.networks) |-> ParseCIDR(lastCall.networks[i])]
           # firstAdded[lastCall.path]

\* the decision the handler takes for a request to path from peer address a
DecisionFor(path, a) ==
    LET l == Lookup(Rules.PathToNetblocks, path)
    IN  Authorized(l.hasRule, l.rule, SrcIP(a), Rules.FailOpen)

\* C7: an AddPathRule call for an unconfigured path with a string that does not
\* parse returns an error and leaves the table as it was: the path stays
\* unconfigured and requests to it are decided by failOpen.
C7_BadCIDRLeavesTable ==
    (lastCall # NoCall /\ lastCall.path \notin DOMAIN lastCall.before.kv
                       /\ ~AllParse(lastCall.networks))
    => /\ lastCall.err = "could not parse CIDR"
       /\ ~panicked
       /\ Rules.PathToNetblocks = lastCall.before
       /\ lastCall.path \notin DOMAIN Table
       /\ \A a \in RemoteAddrs : DecisionFor(lastCall.path, a) = Rules.FailOpen

\* a call failed on the middle string of three, after a string that parses, on
\* a table that already holds another path
C7_Witness ==
    /\ lastCall # NoCall
    /\ Len(lastCall.networks) = 3
    /\ ParseCIDR(lastCall.networks[1]) # NoNet
    /\ ParseCIDR(lastCall.networks[2]) = NoNet
    /\ ParseCIDR(lastCall.networks[3]) # NoNet
    /\ lastCall.path \notin DOMAIN lastCall.before.kv
    /\ lastCall.before.kv # EmptyEntries
    /\ lastCall.err = "could not parse CIDR"

\* C8: a finished denied request produced one log record, before the response,
\* when Log is true and none when Log is false; a finished authorized request
\* produced none.
C8_LogFollowsFlag ==
    \A r \in Requests :
        Done(r) =>
            /\ Count(r, "log") = (IF ~r.authorized /\ Log THEN 1 ELSE 0)
            /\ Count(r, "log") = 1 => r.events[1].kind = "log"

\* C9: IPIsTrusted is false for the nil address on every list, and with
\* failOpen false a finished request whose peer address yields no source
\* address was rejected, on configured and unconfigured paths, with no panic.
C9_NilSourceRejected ==
    /\ ~IPIsTrusted(<<>>, NilIP)
    /\ \A p \in DOMAIN Table : ~IPIsTrusted(Table[p], NilIP)
    /\ \A r \in Requests :
           (Done(r) /\ SrcIP(r.RemoteAddr) = NilIP /\ ~Rules.FailOpen)
           => /\ r.srcIP = NilIP
              /\ ~r.authorized
              /\ Count(r, "inner") = 0
              /\ Count(r, "response") = 1
              /\ ~panicked

\* requests without a source address were rejected on a path with a non-empty
\* rule and on a path with none
C9_Witness ==
    \E r1, r2 \in Requests :
        /\ Done(r1) /\ r1.srcIP = NilIP /\ Count(r1, "response") = 1
        /\ r1.Path \in DOMAIN Table /\ Table[r1.Path] # <<>>
        /\ Done(r2) /\ r2.srcIP = NilIP /\ Count(r2, "response") = 1
        /\ r2.Path \notin DOMAIN Table
        /\ ~Rules.FailOpen

\* every decision taken is the one function of the request's path and peer
\* address, the table and failOpen, whatever else is in flight
DecisionsAreFunction ==
    /\ \A r \in Requests :
           Decided(r) =>
               r.authorized =
                   (\/ /\ r.Path \in DOMAIN Table
                       /\ InSome(Table[r.Path], SrcIP(r.RemoteAddr))
                    \/ Rules.FailOpen)
    /\ \A r1, r2 \in Requests :
           (Decided(r1) /\ Decided(r2) /\ r1.Path = r2.Path
                        /\ r1.RemoteAddr = r2.RemoteAddr)
           => r1.authorized = r2.authorized

\* C10: while serving, the rule table, failOpen and the log flag are what they
\* were when serving began, and every decision is the same function of (path,
\* source address, table, failOpen) under every interleaving of the requests
\* in flight.
C10_ServingReadsOnly ==
    phase = "serve" =>
        /\ Rules = atServe.Rules
        /\ Log = atServe.Log
        /\ DecisionsAreFunction

\* two requests for one path are in flight at once, one decided each way, the
\* later one decided after the earlier one finished
C10_Witness ==
    \E r1, r2 \in Requests :
        /\ r1.pc = "done" /\ r2.pc = "L86"
        /\ r1.Path = r2.Path
        /\ r1.authorized /\ ~r2.authorized

====
